---- MODULE Spec2Model ----
(***************************************************************************)
(* Budget planner (src/app.py): the Flask request handlers over the SQLite *)
(* tables users, income, budgets, expenses, goals and notifications.       *)
(*                                                                         *)
(* A handler is one action.  Where requests run side by side, set_income   *)
(* and add_budget are also given in two steps, up to the statement and the *)
(* statement itself (which SQLite applies atomically), with the request    *)
(* held by a worker in between.                                            *)
(*                                                                         *)
(* The tables are sets of rows (income, budgets, goals: the schema keeps   *)
(* no order the handlers read) or sequences of rows in insertion order     *)
(* (expenses, notifications: AUTOINCREMENT id order).  The created_at      *)
(* columns of income, budgets, goals and notifications are not modelled;   *)
(* the timestamp of an expense is kept at month granularity, which is all  *)
(* that check_overspending and generate_trend_analysis compare.            *)
(*                                                                         *)
(* Time: the handlers read the server's local clock (datetime.now()) for   *)
(* the month key and the month start, while SQLite's CURRENT_TIMESTAMP is  *)
(* UTC.  Both clocks are modelled, at month granularity; the server's      *)
(* time zone is chosen once, in Init.                                      *)
(***************************************************************************)
EXTENDS Integers, Sequences, FiniteSets, TLC

VARIABLES
    users,          \* table users: username -> password hash, or NoRow
    session,        \* the Flask session of the one client: [logged_in, user_id]
    tz,             \* the server's time zone relative to UTC
    pending,        \* per worker: the request it is handling between two steps
    localMonth,     \* calendar month of datetime.now()
    utcMonth,       \* calendar month of CURRENT_TIMESTAMP
    income,         \* table income
    budgets,        \* table budgets
    expenses,       \* table expenses, in id order
    goals,          \* table goals
    notifications,  \* table notifications, in id order
    request,        \* the request handled last
    response,       \* its response: [status, body]
    effect,         \* its write statement: rows changed, ON CONFLICT branch taken
    period,         \* history: the local month in which each expense was recorded
    lastIncome,     \* history: the last accepted set_income per (user, month)
    lastBudget,     \* history: the last upsert per (user, category, month) since its delete
    script,         \* the client: requests of its opening workload sent so far
    free,           \* the client: requests of its own choice sent so far
    held            \* history, per worker: while its overspend check has been running,
                    \* the spend of its category has at some moment been over budget

vars == <<users, session, tz, pending, localMonth, utcMonth, income, budgets, expenses,
          goals, notifications, request, response, effect, period,
          lastIncome, lastBudget, script, free, held>>

tables == <<income, budgets, expenses, goals, notifications>>

(***************************************************************************)
(* Bounds of the model.                                                    *)
(***************************************************************************)
MaxMonth == 2        \* calendar months the clocks run through
MaxSaved == 1        \* largest accumulated amount of a goal, where the requests are free
MaxRequests == 1     \* requests of its own choice the client sends after its workload
MaxExpenses == 2     \* expense rows, where the add-expense requests are free
MaxTrendMonth == 8   \* last month of the clock, where the trend analysis is read

(***************************************************************************)
(* Request values.  A JSON value of a request body is a record: a number,  *)
(* true, a non-numeric string, or null (also: the key is missing, since    *)
(* request.json.get returns None).                                         *)
(***************************************************************************)
Num(n) == [k |-> "num", n |-> n]
JTrue == [k |-> "bool", n |-> 1]
JText == [k |-> "text", n |-> 0]
JNull == [k |-> "null", n |-> 0]

\* Python None for a string-valued field (category, name, deadline).
PyNone == "None"

Users == {"alice", "demo"}
NoUser == "nobody"
NoRow == "norow"
Passwords == {"secret1", "demo"}
Categories == {"Food", "Rent"}
GoalNames == {"car", "trip"}
Deadlines == {"2030-01-01"}
Months == 1..MaxMonth
TimeZones == {"utc", "east", "west"}

\* isinstance(amount, (int, float)): bool is a subclass of int in Python.
IsNumber(v) == v.k \in {"num", "bool"}

\* The number a value counts as in Python comparisons and in SQL arithmetic
\* (SQLite casts a non-numeric string to 0).
NumOf(v) == IF v.k = "text" THEN 0 ELSE v.n

\* sqlite3 parameter binding: True is bound as the integer 1.
Bind(v) == IF v.k = "bool" THEN Num(1) ELSE v

\* float(x) of load_user_data and check_overspending raises on a
\* non-numeric string (ValueError) and on None (TypeError).
FloatRaises(v) == v.k \in {"text", "null"}

\* SQL a + b: NULL if either is NULL.
SqlAdd(a, b) == IF a.k = "null" \/ b.k = "null" THEN JNull ELSE Num(NumOf(a) + NumOf(b))

RECURSIVE SeqSum(_)
SeqSum(s) == IF s = <<>> THEN 0 ELSE NumOf(Head(s).amount) + SeqSum(Tail(s))

(***************************************************************************)
(* Construction: init_db creates six empty tables; no session exists.      *)
(***************************************************************************)
\* The server handles up to two requests at a time; a worker that is not
\* between two steps of a handler is idle.
Workers == {1, 2}
Idle == [op |-> "idle"]

NoSession == [logged_in |-> FALSE, user_id |-> NoUser]

Init ==
    /\ users = [u \in Users |-> NoRow]
    /\ session = NoSession
    /\ tz \in TimeZones
    /\ pending = [w \in Workers |-> Idle]
    /\ localMonth = 1
    /\ utcMonth = 1
    /\ income = {}
    /\ budgets = {}
    /\ expenses = <<>>
    /\ goals = {}
    /\ notifications = <<>>
    /\ request = [op |-> "none"]
    /\ response = [status |-> 0, body |-> "none"]
    /\ effect = [rows |-> 0, conflict |-> FALSE]
    /\ period = <<>>
    /\ lastIncome = [u \in Users |-> [m \in Months |-> JNull]]
    /\ lastBudget = [u \in Users |-> [c \in Categories |-> [m \in Months |-> JNull]]]
    /\ script = 0
    /\ free = 0
    /\ held = [w \in Workers |-> FALSE]

(***************************************************************************)
(* Responses.                                                              *)
(***************************************************************************)
Effect(n, c) == [rows |-> n, conflict |-> c]
NoEffect == Effect(0, FALSE)

Success == [status |-> 200, body |-> "success"]
Unauthorized == [status |-> 401, body |-> "Not authorized"]
InvalidAmount == [status |-> 400, body |-> "Invalid amount"]
Duplicate == [status |-> 400, body |-> "A goal with the name already exists."]
ServerError == [status |-> 500, body |-> "Internal Server Error"]
Redirect(to) == [status |-> 302, body |-> to]
Page(message) == [status |-> 200, body |-> message]

(***************************************************************************)
(* The clocks.  A month boundary passes: in UTC both clocks turn at once;  *)
(* east of UTC the local clock turns first, west of UTC the UTC clock.     *)
(***************************************************************************)
Tick ==
    /\ CASE tz = "utc" ->
              /\ localMonth < MaxMonth
              /\ localMonth' = localMonth + 1
              /\ utcMonth' = utcMonth + 1
         [] tz = "east" ->
              IF localMonth = utcMonth
              THEN localMonth < MaxMonth /\ localMonth' = localMonth + 1 /\ utcMonth' = utcMonth
              ELSE utcMonth' = utcMonth + 1 /\ localMonth' = localMonth
         [] tz = "west" ->
              IF localMonth = utcMonth
              THEN utcMonth < MaxMonth /\ utcMonth' = utcMonth + 1 /\ localMonth' = localMonth
              ELSE localMonth' = localMonth + 1 /\ utcMonth' = utcMonth
    /\ UNCHANGED <<users, session, tz, pending, tables, request, response, effect,
                   period, lastIncome, lastBudget>>

\* datetime.now().strftime('%Y-%m')
current_month == localMonth

\* datetime.now().replace(day=1, hour=0, ...): the first instant of the local
\* month, compared as a string with UTC timestamps.
month_start == localMonth

\* What a handler leaves alone when it writes no table.
NoWrite == UNCHANGED <<users, session, tz, pending, localMonth, utcMonth, tables,
                       period, lastIncome, lastBudget>>

(***************************************************************************)
(* Accounts and the session.                                               *)
(***************************************************************************)
generate_password_hash(p) == <<"hash", p>>
check_password_hash(h, p) == h = <<"hash", p>>

register(username, password, confirm_password) ==
    /\ request' = [op |-> "register", username |-> username]
    /\ effect' = NoEffect
    /\ IF password # confirm_password
       THEN response' = Page("Passwords don't match") /\ NoWrite
       ELSE IF password = "demo"
       THEN response' = Page("Password must be at least 6 characters") /\ NoWrite
       ELSE IF users[username] # NoRow
       THEN response' = Page("Username already exists") /\ NoWrite
       ELSE /\ users' = [users EXCEPT ![username] = generate_password_hash(password)]
            /\ response' = Redirect("login")
            /\ UNCHANGED <<session, tz, pending, localMonth, utcMonth, tables, period,
                           lastIncome, lastBudget>>

login(username, password) ==
    LET provision == users[username] = NoRow /\ username = "demo" /\ password = "demo"
        table == IF provision
                 THEN [users EXCEPT ![username] = generate_password_hash("demo")]
                 ELSE users
    IN  /\ request' = [op |-> "login", username |-> username]
        /\ effect' = NoEffect
        /\ users' = table
        /\ IF table[username] # NoRow /\ check_password_hash(table[username], password)
           THEN /\ session' = [logged_in |-> TRUE, user_id |-> username]
                /\ response' = Redirect("home")
           ELSE /\ session' = session
                /\ response' = Page("Invalid credentials")
        /\ UNCHANGED <<tz, pending, localMonth, utcMonth, tables, period, lastIncome, lastBudget>>

logout ==
    /\ request' = [op |-> "logout"]
    /\ effect' = NoEffect
    /\ session' = NoSession
    /\ response' = Redirect("login")
    /\ UNCHANGED <<users, tz, pending, localMonth, utcMonth, tables, period, lastIncome, lastBudget>>

\* check_session: TRUE when the handler must return the 401 response.
check_session == ~session.logged_in

(***************************************************************************)
(* Income.                                                                 *)
(***************************************************************************)
IncomeRow(u, a, m) == [user_id |-> u, amount |-> a, month_year |-> m]

\* The bug INSERT OR IGNORE: a row already there keeps its amount.
IncomeInsertOrIgnore(inc, u, a, m) ==
    IF \E r \in inc : r.user_id = u /\ r.month_year = m
    THEN inc
    ELSE inc \cup {IncomeRow(u, a, m)}

\* The bug of a plain INSERT on a table without its UNIQUE constraint.
IncomeInsert(inc, u, a, m) == inc \cup {IncomeRow(u, a, m)}

\* INSERT ... ON CONFLICT(user_id, month_year) DO UPDATE SET amount = excluded.amount
IncomeUpsert(inc, u, a, m) ==
    IF \E r \in inc : r.user_id = u /\ r.month_year = m
    THEN {IF r.user_id = u /\ r.month_year = m THEN [r EXCEPT !.amount = a] ELSE r : r \in inc}
    ELSE inc \cup {IncomeRow(u, a, m)}

\* if not isinstance(amount, (int, float)) or amount < 0
InvalidIncome(amount) == ~IsNumber(amount) \/ NumOf(amount) < 0

set_income(amount) ==
    /\ request' = [op |-> "set_income", amount |-> amount]
    /\ IF check_session
       THEN response' = Unauthorized /\ effect' = NoEffect /\ NoWrite
       ELSE IF InvalidIncome(amount)
       THEN response' = InvalidAmount /\ effect' = NoEffect /\ NoWrite
       ELSE /\ income' = IncomeUpsert(income, session.user_id, Bind(amount), current_month)
            /\ lastIncome' = [lastIncome EXCEPT ![session.user_id][current_month] = Bind(amount)]
            /\ response' = Success
            /\ effect' = Effect(1, \E r \in income :
                                    r.user_id = session.user_id /\ r.month_year = current_month)
            /\ UNCHANGED <<users, session, tz, pending, localMonth, utcMonth, budgets,
                           expenses, goals, notifications, period, lastBudget>>

\* The frame of a step that only takes a request into a worker.
Received == UNCHANGED <<users, session, tz, localMonth, utcMonth, tables, request,
                        response, effect, period, lastIncome, lastBudget>>

\* set_income in worker w up to its statement: the session check, the
\* validation and the read of the clock.
set_income_begin(w, amount) ==
    /\ pending[w] = Idle
    /\ IF check_session
       THEN /\ request' = [op |-> "set_income", amount |-> amount]
            /\ response' = Unauthorized /\ effect' = NoEffect /\ NoWrite
       ELSE IF InvalidIncome(amount)
       THEN /\ request' = [op |-> "set_income", amount |-> amount]
            /\ response' = InvalidAmount /\ effect' = NoEffect /\ NoWrite
       ELSE /\ pending' = [pending EXCEPT ![w] =
                             [op |-> "set_income", user_id |-> session.user_id,
                              amount |-> Bind(amount), month_year |-> current_month]]
            /\ Received

\* The statement of set_income in worker w, its commit and its response.
set_income_commit(w) ==
    LET p == pending[w]
    IN  /\ p.op = "set_income"
        /\ income' = IncomeUpsert(income, p.user_id, p.amount, p.month_year)
        /\ lastIncome' = [lastIncome EXCEPT ![p.user_id][p.month_year] = p.amount]
        /\ request' = [op |-> "set_income", amount |-> p.amount, worker |-> w]
        /\ response' = Success
        /\ effect' = Effect(1, \E r \in income :
                                r.user_id = p.user_id /\ r.month_year = p.month_year)
        /\ pending' = [pending EXCEPT ![w] = Idle]
        /\ UNCHANGED <<users, session, tz, localMonth, utcMonth, budgets, expenses,
                       goals, notifications, period, lastBudget>>

(***************************************************************************)
(* Budgets.                                                                *)
(***************************************************************************)
BudgetRow(u, c, a, m) == [user_id |-> u, category |-> c, amount |-> a, month_year |-> m]

BudgetKey(r, u, c, m) == r.user_id = u /\ r.category = c /\ r.month_year = m

\* The bug INSERT OR IGNORE: a row already there keeps its amount.
BudgetInsertOrIgnore(bud, u, c, a, m) ==
    IF \E r \in bud : BudgetKey(r, u, c, m)
    THEN bud
    ELSE bud \cup {BudgetRow(u, c, a, m)}

\* INSERT ... ON CONFLICT(user_id, category, month_year) DO UPDATE SET amount = excluded.amount
BudgetUpsert(bud, u, c, a, m) ==
    IF \E r \in bud : BudgetKey(r, u, c, m)
    THEN {IF BudgetKey(r, u, c, m) THEN [r EXCEPT !.amount = a] ELSE r : r \in bud}
    ELSE bud \cup {BudgetRow(u, c, a, m)}

\* The bug of a DELETE without its month_year condition.
BudgetDeleteAllMonths(bud, u, c, m) == {r \in bud : ~(r.user_id = u /\ r.category = c)}

\* DELETE FROM budgets WHERE user_id = ? AND category = ? AND month_year = ?
BudgetDelete(bud, u, c, m) == {r \in bud : ~BudgetKey(r, u, c, m)}

add_budget(category, amount) ==
    /\ request' = [op |-> "add_budget", category |-> category, amount |-> amount]
    /\ IF check_session
       THEN response' = Unauthorized /\ effect' = NoEffect /\ NoWrite
       ELSE IF category = PyNone \/ amount.k = "null"
       THEN \* NOT NULL constraint failed: the IntegrityError is not caught
            response' = ServerError /\ effect' = NoEffect /\ NoWrite
       ELSE /\ budgets' = BudgetUpsert(budgets, session.user_id, category, Bind(amount),
                                       current_month)
            /\ lastBudget' = [lastBudget EXCEPT
                                ![session.user_id][category][current_month] = Bind(amount)]
            /\ response' = Success
            /\ effect' = Effect(1, \E r \in budgets :
                                    BudgetKey(r, session.user_id, category, current_month))
            /\ UNCHANGED <<users, session, tz, pending, localMonth, utcMonth, income,
                           expenses, goals, notifications, period, lastIncome>>

\* add_budget in worker w up to its statement: the session check and the
\* read of the clock.
add_budget_begin(w, category, amount) ==
    /\ pending[w] = Idle
    /\ IF check_session
       THEN /\ request' = [op |-> "add_budget", category |-> category, amount |-> amount]
            /\ response' = Unauthorized /\ effect' = NoEffect /\ NoWrite
       ELSE /\ pending' = [pending EXCEPT ![w] =
                             [op |-> "add_budget", user_id |-> session.user_id,
                              category |-> category, amount |-> amount,
                              month_year |-> current_month]]
            /\ Received

\* The statement of add_budget in worker w, its commit and its response.
add_budget_commit(w) ==
    LET p == pending[w]
    IN  /\ p.op = "add_budget"
        /\ request' = [op |-> "add_budget", category |-> p.category,
                       amount |-> p.amount, worker |-> w]
        /\ pending' = [pending EXCEPT ![w] = Idle]
        /\ IF p.category = PyNone \/ p.amount.k = "null"
           THEN /\ response' = ServerError /\ effect' = NoEffect
                /\ UNCHANGED <<users, session, tz, localMonth, utcMonth, tables,
                               period, lastIncome, lastBudget>>
           ELSE /\ budgets' = BudgetUpsert(budgets, p.user_id, p.category, Bind(p.amount),
                                           p.month_year)
                /\ lastBudget' = [lastBudget EXCEPT
                                    ![p.user_id][p.category][p.month_year] = Bind(p.amount)]
                /\ response' = Success
                /\ effect' = Effect(1, \E r \in budgets :
                                        BudgetKey(r, p.user_id, p.category, p.month_year))
                /\ UNCHANGED <<users, session, tz, localMonth, utcMonth, income,
                               expenses, goals, notifications, period, lastIncome>>

delete_budget(category) ==
    /\ request' = [op |-> "delete_budget", category |-> category]
    /\ IF check_session
       THEN response' = Unauthorized /\ effect' = NoEffect /\ NoWrite
       ELSE /\ budgets' = BudgetDelete(budgets, session.user_id, category, current_month)
            /\ effect' = Effect(Cardinality(budgets) - Cardinality(budgets'), FALSE)
            /\ lastBudget' = IF category \in Categories
                             THEN [lastBudget EXCEPT
                                     ![session.user_id][category][current_month] = JNull]
                             ELSE lastBudget
            /\ response' = Success
            /\ UNCHANGED <<users, session, tz, pending, localMonth, utcMonth, income,
                           expenses, goals, notifications, period, lastIncome>>

(***************************************************************************)
(* Expenses and the overspend check.                                       *)
(***************************************************************************)
ExpenseRow(u, c, a, d, t) ==
    [user_id |-> u, category |-> c, amount |-> a, description |-> d, timestamp |-> t]

\* The bug INSERT OR REPLACE keyed by (user_id, category): an expense of the
\* same user and category is replaced.
ExpenseInsertOrReplace(exp, u, c, a, d) ==
    LET Others(e) == ~(e.user_id = u /\ e.category = c)
    IN  Append(SelectSeq(exp, Others), ExpenseRow(u, c, a, d, utcMonth))

\* INSERT INTO expenses (user_id, category, amount, description): the
\* timestamp is the column default CURRENT_TIMESTAMP.
ExpenseInsert(exp, u, c, a, d) == Append(exp, ExpenseRow(u, c, a, d, utcMonth))

\* SELECT amount FROM budgets WHERE user_id = ? AND category = ? AND month_year = ?
BudgetFor(u, c) == {r \in budgets : BudgetKey(r, u, c, current_month)}

\* SELECT SUM(amount) ... WHERE user_id = ? AND category = ? AND timestamp >= ?
\* then `or 0`: SUM over no rows is NULL.
TotalSpent(exp, u, c) ==
    LET Counted(e) == e.user_id = u /\ e.category = c /\ e.timestamp >= month_start
    IN  SeqSum(SelectSeq(exp, Counted))

\* The bug of a notifications table whose is_read defaults to TRUE.
NotificationRowRead(u, c, over) ==
    [user_id |-> u, category |-> c, overspent |-> over, type |-> "danger",
     is_read |-> TRUE]

\* INSERT INTO notifications (user_id, message, type): is_read is the column
\* default FALSE; the message is kept as its category and overspent amount.
NotificationRow(u, c, over) ==
    [user_id |-> u, category |-> c, overspent |-> over, type |-> "danger",
     is_read |-> FALSE]

\* total_spent > budget_amount
Exceeds(total_spent, budget_amount) == total_spent > budget_amount

\* check_overspending(user_id, category), run on the expense table `exp`:
\* "return" (no budget), "raise" (float() of the budget amount fails), or the
\* table of notifications it leaves.
check_overspending(exp, u, c) ==
    IF BudgetFor(u, c) = {}
    THEN [outcome |-> "return", notifications |-> notifications]
    ELSE LET budget == CHOOSE r \in BudgetFor(u, c) : TRUE
             total_spent == TotalSpent(exp, u, c)
         IN  IF FloatRaises(budget.amount)
             THEN [outcome |-> "raise", notifications |-> notifications]
             ELSE IF Exceeds(total_spent, NumOf(budget.amount))
             THEN [outcome |-> "alert",
                   notifications |-> Append(notifications,
                       NotificationRow(u, c, total_spent - NumOf(budget.amount)))]
             ELSE [outcome |-> "return", notifications |-> notifications]

\* The bug of one transaction around the insert and the check: a failing
\* check rolls the expense back.
add_expense_one_transaction(category, amount, description) ==
    /\ request' = [op |-> "add_expense", category |-> category, amount |-> amount]
    /\ IF check_session
       THEN response' = Unauthorized /\ effect' = NoEffect /\ NoWrite
       ELSE IF category = PyNone \/ amount.k = "null"
       THEN response' = ServerError /\ effect' = NoEffect /\ NoWrite
       ELSE LET inserted == ExpenseInsert(expenses, session.user_id, category,
                                          Bind(amount), description)
                check == check_overspending(inserted, session.user_id, category)
            IN  IF check.outcome = "raise"
                THEN response' = ServerError /\ effect' = NoEffect /\ NoWrite
                ELSE /\ expenses' = inserted
                     /\ period' = Append(period, current_month)
                     /\ effect' = Effect(1, FALSE)
                     /\ notifications' = check.notifications
                     /\ response' = Success
                     /\ UNCHANGED <<users, session, tz, pending, localMonth, utcMonth, income,
                                    budgets, goals, lastIncome, lastBudget>>

add_expense(category, amount, description) ==
    /\ request' = [op |-> "add_expense", category |-> category, amount |-> amount]
    /\ IF check_session
       THEN response' = Unauthorized /\ effect' = NoEffect /\ NoWrite
       ELSE IF category = PyNone \/ amount.k = "null"
       THEN response' = ServerError /\ effect' = NoEffect /\ NoWrite
       ELSE /\ expenses' = ExpenseInsert(expenses, session.user_id, category,
                                         Bind(amount), description)
            /\ period' = Append(period, current_month)
            /\ effect' = Effect(1, FALSE)
            /\ LET check == check_overspending(expenses', session.user_id, category)
               IN  /\ notifications' = check.notifications
                   /\ response' = IF check.outcome = "raise" THEN ServerError ELSE Success
            /\ UNCHANGED <<users, session, tz, pending, localMonth, utcMonth, income,
                           budgets, goals, lastIncome, lastBudget>>

\* add_expense in worker w up to the commit of its INSERT: the session check,
\* the inputs, the statement and its commit.  The overspend check follows in
\* steps of its own, its statements being separate from this commit.
add_expense_insert(w, category, amount, description) ==
    /\ pending[w] = Idle
    /\ IF check_session
       THEN /\ request' = [op |-> "add_expense", category |-> category, amount |-> amount]
            /\ response' = Unauthorized /\ effect' = NoEffect /\ NoWrite
       ELSE IF category = PyNone \/ amount.k = "null"
       THEN /\ request' = [op |-> "add_expense", category |-> category, amount |-> amount]
            /\ response' = ServerError /\ effect' = NoEffect /\ NoWrite
       ELSE /\ expenses' = ExpenseInsert(expenses, session.user_id, category,
                                         Bind(amount), description)
            /\ period' = Append(period, current_month)
            /\ pending' = [pending EXCEPT ![w] =
                             [op |-> "add_expense", pc |-> "inserted",
                              user_id |-> session.user_id, category |-> category,
                              amount |-> amount]]
            /\ UNCHANGED <<users, session, tz, localMonth, utcMonth, income, budgets,
                           goals, notifications, request, response, effect,
                           lastIncome, lastBudget>>

\* The response of add_expense in worker w.
add_expense_return(w, answer) ==
    /\ request' = [op |-> "add_expense", category |-> pending[w].category,
                   amount |-> pending[w].amount, worker |-> w]
    /\ response' = answer
    /\ effect' = Effect(1, FALSE)
    /\ pending' = [pending EXCEPT ![w] = Idle]

\* check_overspending in worker w up to `if not budget: return`: the read of
\* the clock and the SELECT of the budget of the current month.
check_overspending_budget(w) ==
    LET p == pending[w]
    IN  /\ p.op = "add_expense"
        /\ p.pc = "inserted"
        /\ IF BudgetFor(p.user_id, p.category) = {}
           THEN add_expense_return(w, Success)
           ELSE /\ pending' = [pending EXCEPT ![w] =
                                 [op |-> "add_expense", pc |-> "budget",
                                  user_id |-> p.user_id, category |-> p.category,
                                  amount |-> p.amount,
                                  budget |-> (CHOOSE r \in BudgetFor(p.user_id,
                                                                     p.category) :
                                                TRUE).amount]]
                /\ UNCHANGED <<request, response, effect>>
        /\ UNCHANGED <<users, session, tz, localMonth, utcMonth, tables, period,
                       lastIncome, lastBudget>>

\* check_overspending in worker w from month_start on: the second read of the
\* clock, the SELECT SUM, the comparison with the budget read before, and the
\* INSERT of the notification.
check_overspending_total(w) ==
    LET p == pending[w]
    IN  /\ p.op = "add_expense"
        /\ p.pc = "budget"
        /\ LET total_spent == TotalSpent(expenses, p.user_id, p.category)
           IN  IF FloatRaises(p.budget)
               THEN add_expense_return(w, ServerError) /\ UNCHANGED notifications
               ELSE IF Exceeds(total_spent, NumOf(p.budget))
               THEN /\ notifications' = Append(notifications,
                          NotificationRow(p.user_id, p.category,
                                          total_spent - NumOf(p.budget)))
                    /\ add_expense_return(w, Success)
               ELSE add_expense_return(w, Success) /\ UNCHANGED notifications
        /\ UNCHANGED <<users, session, tz, localMonth, utcMonth, income, budgets,
                       expenses, goals, period, lastIncome, lastBudget>>

(***************************************************************************)
(* Goals.                                                                  *)
(***************************************************************************)
GoalRow(u, n, t, d) ==
    [user_id |-> u, name |-> n, target_amount |-> t, current_amount |-> Num(0),
     deadline |-> d]

GoalKey(r, u, n) == r.user_id = u /\ r.name = n

\* The bug of a goals table without UNIQUE(user_id, name).
GoalNotNullError(u, n, t, d) == n = PyNone \/ t.k = "null" \/ d = PyNone

\* The INSERT raises sqlite3.IntegrityError: UNIQUE(user_id, name), or NOT
\* NULL of name, target_amount or deadline.
GoalIntegrityError(u, n, t, d) ==
    \/ \E r \in goals : GoalKey(r, u, n)
    \/ n = PyNone
    \/ t.k = "null"
    \/ d = PyNone

add_goal(name, target, deadline) ==
    /\ request' = [op |-> "add_goal", name |-> name, target |-> target,
                   deadline |-> deadline]
    /\ IF check_session
       THEN response' = Unauthorized /\ effect' = NoEffect /\ NoWrite
       ELSE IF GoalIntegrityError(session.user_id, name, target, deadline)
       THEN response' = Duplicate /\ effect' = NoEffect /\ NoWrite
       ELSE /\ goals' = goals \cup {GoalRow(session.user_id, name, Bind(target), deadline)}
            /\ response' = Success
            /\ effect' = Effect(1, FALSE)
            /\ UNCHANGED <<users, session, tz, pending, localMonth, utcMonth, income,
                           budgets, expenses, notifications, period, lastIncome,
                           lastBudget>>

\* The bug of a DELETE without its user_id condition.
GoalDeleteAnyUser(g, u, n) == {r \in g : r.name # n}

\* DELETE FROM goals WHERE user_id = ? AND name = ?
GoalDelete(g, u, n) == {r \in g : ~GoalKey(r, u, n)}

delete_goal(name) ==
    /\ request' = [op |-> "delete_goal", name |-> name]
    /\ IF check_session
       THEN response' = Unauthorized /\ effect' = NoEffect /\ NoWrite
       ELSE /\ goals' = GoalDelete(goals, session.user_id, name)
            /\ effect' = Effect(Cardinality(goals) - Cardinality(goals'), FALSE)
            /\ response' = Success
            /\ UNCHANGED <<users, session, tz, pending, localMonth, utcMonth, income,
                           budgets, expenses, notifications, period, lastIncome,
                           lastBudget>>

\* The bug of an UPDATE without its user_id condition.
GoalAddSavingAnyUser(g, u, n, a) ==
    {IF r.name = n THEN [r EXCEPT !.current_amount = SqlAdd(r.current_amount, a)]
     ELSE r : r \in g}

\* UPDATE goals SET current_amount = current_amount + ? WHERE user_id = ? AND name = ?
GoalAddSaving(g, u, n, a) ==
    {IF GoalKey(r, u, n) THEN [r EXCEPT !.current_amount = SqlAdd(r.current_amount, a)]
     ELSE r : r \in g}

add_saving(goal_name, amount) ==
    /\ request' = [op |-> "add_saving", goal_name |-> goal_name, amount |-> amount]
    /\ IF check_session
       THEN response' = Unauthorized /\ effect' = NoEffect /\ NoWrite
       ELSE /\ goals' = GoalAddSaving(goals, session.user_id, goal_name, Bind(amount))
            /\ effect' = Effect(Cardinality({r \in goals : GoalKey(r, session.user_id, goal_name)}),
                             FALSE)
            /\ response' = Success
            /\ UNCHANGED <<users, session, tz, pending, localMonth, utcMonth, income,
                           budgets, expenses, notifications, period, lastIncome,
                           lastBudget>>

(***************************************************************************)
(* Reads.                                                                  *)
(***************************************************************************)
SeqRange(s) == {s[i] : i \in 1..Len(s)}

\* load_user_data raises when a float() conversion of a stored amount fails.
LoadRaises(u) ==
    \/ \E r \in income : r.user_id = u /\ r.month_year = current_month /\ FloatRaises(r.amount)
    \/ \E r \in budgets : r.user_id = u /\ r.month_year = current_month /\ FloatRaises(r.amount)
    \/ \E e \in SeqRange(expenses) : e.user_id = u /\ FloatRaises(e.amount)
    \/ \E g \in goals : g.user_id = u /\ (FloatRaises(g.target_amount) \/ FloatRaises(g.current_amount))

\* ORDER BY ... DESC over rows kept in insertion order: newest first.  (The
\* order SQLite gives rows of one timestamp is not read by any property.)
Reverse(q) == [i \in 1..Len(q) |-> q[Len(q) + 1 - i]]

\* LIMIT n
Limit(q, n) == IF Len(q) <= n THEN q ELSE SubSeq(q, 1, n)

\* float(x) of a stored amount that is a number.
Float(v) == NumOf(v)

\* SELECT amount, created_at FROM income WHERE user_id = ? AND month_year = ?
CurrentIncome(inc, u) == {r \in inc : r.user_id = u /\ r.month_year = current_month}

\* load_user_data(user_id) over the five tables: the read model.  A
\* created_at is "set" where the row has one.
load_user_data(inc, bud, exp, gl, nts, u) ==
    LET mine == CurrentIncome(inc, u)
        row == CHOOSE r \in mine : TRUE
        OfUser(r) == r.user_id = u
        Unread(n) == n.user_id = u /\ ~n.is_read
        spent == Reverse(SelectSeq(exp, OfUser))
        unread == Limit(Reverse(SelectSeq(nts, Unread)), 10)
    IN  [income |-> IF mine # {}
                    THEN [amount |-> Float(row.amount), updated_at |-> "set"]
                    ELSE [amount |-> 0, updated_at |-> PyNone],
         budgets |-> {[category |-> r.category, amount |-> Float(r.amount)] :
                         r \in {x \in bud : x.user_id = u /\ x.month_year = current_month}},
         expenses |-> [i \in 1..Len(spent) |->
                         [category |-> spent[i].category, amount |-> Float(spent[i].amount),
                          description |-> spent[i].description,
                          timestamp |-> spent[i].timestamp]],
         goals |-> {[name |-> g.name, target |-> Float(g.target_amount),
                     current |-> Float(g.current_amount), deadline |-> g.deadline] :
                       g \in {x \in gl : x.user_id = u}},
         notifications |-> [i \in 1..Len(unread) |->
                              [category |-> unread[i].category,
                               overspent |-> unread[i].overspent,
                               type |-> unread[i].type, is_read |-> unread[i].is_read]]]

Data(d) == [status |-> 200, body |-> "data", data |-> d]

get_data ==
    /\ request' = [op |-> "get_data"]
    /\ effect' = NoEffect
    /\ response' = IF check_session THEN Unauthorized
                   ELSE IF LoadRaises(session.user_id) THEN ServerError
                   ELSE Data(load_user_data(income, budgets, expenses, goals,
                                            notifications, session.user_id))
    /\ NoWrite

(***************************************************************************)
(* The dashboard of the page (the script of MAIN_HTML), computed by the    *)
(* browser from the read model.                                            *)
(***************************************************************************)
\* expenses.reduce((sum, e) => sum + e.amount, 0)
RECURSIVE Reduce(_)
Reduce(q) == IF q = <<>> THEN 0 ELSE Head(q).amount + Reduce(Tail(q))

\* (n / d * 100).toFixed(1), d > 0, as a number of tenths of a percent: the
\* nearest tenth, a tie rounded away from zero.
ToFixed1(n, d) ==
    LET tenths(x) == (2 * 1000 * x + d) \div (2 * d)
    IN  IF n >= 0 THEN tenths(n) ELSE 0 - tenths(0 - n)

\* The bug of a display without its floor: savingsRate is shown as it is.
Shown(savingsRate) == savingsRate

\* `${savingsRate > 0 ? savingsRate : 0}%`
Displayed(savingsRate) == IF savingsRate > 0 THEN savingsRate ELSE 0

\* refreshUI and updateDashboardStats over the read model `state`, in the
\* UTC month `month` of the browser's new Date().toISOString(): the four
\* figures shown, the savings rate in tenths of a percent.
updateDashboardStats(state, month) ==
    LET ThisMonth(e) == e.timestamp = month
        totalExpenses == Reduce(SelectSeq(state.expenses, ThisMonth))
        inc == state.income.amount
        remaining == inc - totalExpenses
        savingsRate == IF inc > 0 THEN ToFixed1(remaining, inc) ELSE 0
    IN  [income |-> inc, expenses |-> totalExpenses, remaining |-> remaining,
         savings_rate |-> Displayed(savingsRate)]

\* SELECT message, type, is_read, created_at FROM notifications WHERE
\* user_id = ? ORDER BY created_at DESC LIMIT 50
NotificationsOf(nts, u) ==
    LET OfUser(n) == n.user_id = u
        newest == Limit(Reverse(SelectSeq(nts, OfUser)), 50)
    IN  [i \in 1..Len(newest) |->
            [category |-> newest[i].category, overspent |-> newest[i].overspent,
             type |-> newest[i].type, is_read |-> newest[i].is_read]]

Notifications(list) == [status |-> 200, body |-> "notifications", list |-> list]

get_notifications ==
    /\ request' = [op |-> "get_notifications"]
    /\ effect' = NoEffect
    /\ response' = IF check_session THEN Unauthorized
                   ELSE Notifications(NotificationsOf(notifications, session.user_id))
    /\ NoWrite

(***************************************************************************)
(* The calendar.  Month 1 of the clocks is the January of a year of 365    *)
(* days; a date is a month of the clock and a day of that month.           *)
(***************************************************************************)
MonthLengths == <<31, 28, 31, 30, 31, 30, 31, 31, 30, 31, 30, 31>>

DaysIn(m) == MonthLengths[((m - 1) % 12) + 1]

\* Days from the first day of month 1 to the first day of month m.
RECURSIVE DaysBefore(_)
DaysBefore(m) == IF m <= 1 THEN 0 ELSE DaysIn(m - 1) + DaysBefore(m - 1)

\* The month that holds day n (n >= 1, counted from the first day of month m).
RECURSIVE MonthOfDay(_, _)
MonthOfDay(n, m) == IF n <= DaysIn(m) THEN m ELSE MonthOfDay(n - DaysIn(m), m + 1)

\* (datetime.now() - timedelta(days=180)).strftime('%Y-%m-01'): the month
\* that holds the day 180 days before (month, day); 0 stands for a month
\* before month 1, which no timestamp is in.
six_months_ago(month, day) ==
    LET n == DaysBefore(month) + day - 180
    IN  IF n <= 0 THEN 0 ELSE MonthOfDay(n, 1)

\* ORDER BY month: the months of a set, ascending.
RECURSIVE Ascending(_)
Ascending(S) ==
    IF S = {} THEN <<>>
    ELSE LET least == CHOOSE m \in S : \A n \in S : m <= n
         IN  <<least>> \o Ascending(S \ {least})

\* The bug of a trend query without its user_id condition.
TrendRowsOfAnyUser(exp, u, since) ==
    LET Selected(e) == e.timestamp >= since
    IN  SelectSeq(exp, Selected)

\* FROM expenses WHERE user_id = ? AND timestamp >= ?
TrendRows(exp, u, since) ==
    LET Selected(e) == e.user_id = u /\ e.timestamp >= since
    IN  SelectSeq(exp, Selected)

\* generate_trend_analysis(user_id), over the expense table `exp`, on the
\* day `day` of the local month:
\* SELECT strftime('%Y-%m', timestamp) as month, SUM(amount) ... GROUP BY
\* month ORDER BY month, returned as the parallel lists labels and expenses.
generate_trend_analysis(exp, u, day) ==
    LET rows == TrendRows(exp, u, six_months_ago(localMonth, day))
        months == Ascending({rows[i].timestamp : i \in 1..Len(rows)})
        Total(m) == LET InMonth(e) == e.timestamp = m
                    IN  SeqSum(SelectSeq(rows, InMonth))
    IN  [labels |-> months,
         expenses |-> [i \in 1..Len(months) |-> Total(months[i])]]

Trends(t) == [status |-> 200, body |-> "trends", labels |-> t.labels,
              expenses |-> t.expenses]

\* The bug of a handler that forgets check_session.
get_trends_unchecked(day) ==
    /\ day <= DaysIn(localMonth)
    /\ request' = [op |-> "get_trends", day |-> day]
    /\ effect' = NoEffect
    /\ response' = Trends(generate_trend_analysis(expenses, session.user_id, day))
    /\ NoWrite

\* get_trends, handled on the day `day` of the local month.
get_trends(day) ==
    /\ day <= DaysIn(localMonth)
    /\ request' = [op |-> "get_trends", day |-> day]
    /\ effect' = NoEffect
    /\ response' = IF check_session THEN Unauthorized
                   ELSE Trends(generate_trend_analysis(expenses, session.user_id, day))
    /\ NoWrite

(***************************************************************************)
(* Request inputs.                                                         *)
(***************************************************************************)
AmountInputs == {Num(-1), Num(0), Num(1), Num(2), JTrue, JText, JNull}
CategoryInputs == Categories \cup {PyNone}
NameInputs == GoalNames \cup {PyNone}
DeadlineInputs == Deadlines \cup {PyNone}
Descriptions == {"", "lunch"}
DayInputs == {1, 27, 28, 31}
Credentials == {<<"secret1", "secret1">>, <<"secret1", "demo">>, <<"demo", "demo">>}

\* The variables no handler writes.
client == <<script, free, held>>

Accounts ==
    \/ \E c \in Credentials : register("alice", c[1], c[2])
    \/ \E u \in Users, p \in Passwords : login(u, p)
    \/ logout

(***************************************************************************)
(* The income handlers under every request, from construction.             *)
(***************************************************************************)
NextIncome ==
    \/ Accounts /\ UNCHANGED client
    \/ Tick /\ UNCHANGED client
    \/ \E a \in AmountInputs : set_income(a) /\ UNCHANGED client
    \/ get_data /\ UNCHANGED client

SpecIncome == Init /\ [][NextIncome]_vars

(***************************************************************************)
(* The budget handlers under every request, from construction.             *)
(***************************************************************************)
NextBudget ==
    \/ Accounts /\ UNCHANGED client
    \/ Tick /\ UNCHANGED client
    \/ \E c \in {"Food", PyNone}, a \in {Num(1), Num(2), JNull} :
          add_budget(c, a) /\ UNCHANGED client
    \/ \E c \in {"Food", PyNone} : delete_budget(c) /\ UNCHANGED client

SpecBudget == Init /\ [][NextBudget]_vars

(***************************************************************************)
(* The goal handlers under every request, from construction.               *)
(***************************************************************************)
SavedWithin == \A r \in goals : NumOf(r.current_amount) \in 0..MaxSaved

NextGoal ==
    \/ Accounts /\ UNCHANGED client
    \/ \E n \in NameInputs, t \in {Num(2), JNull}, d \in DeadlineInputs :
          add_goal(n, t, d) /\ UNCHANGED client
    \/ \E n \in NameInputs : delete_goal(n) /\ UNCHANGED client
    \/ \E n \in NameInputs, a \in {Num(1), JNull} :
          add_saving(n, a) /\ SavedWithin' /\ UNCHANGED client

SpecGoal == Init /\ [][NextGoal]_vars

(***************************************************************************)
(* The expense handler and the budgets its check reads, under every        *)
(* request, from construction.                                             *)
(***************************************************************************)
NextExpense ==
    \/ Accounts /\ UNCHANGED client
    \/ \E a \in {Num(1), JText} : add_budget("Food", a) /\ UNCHANGED client
    \/ \E c \in {"Food", PyNone}, a \in {Num(1), JNull} :
          /\ Len(expenses) < MaxExpenses
          /\ add_expense(c, a, "")
          /\ UNCHANGED client
    \/ get_data /\ UNCHANGED client

SpecExpense == Init /\ [][NextExpense]_vars

(***************************************************************************)
(* The trend analysis, read on any day of a month late enough for the day  *)
(* 180 days before to lie on the calendar, over any expense table the two  *)
(* users can have recorded by then (server clock on UTC).                  *)
(***************************************************************************)
TrendNow == {m \in 1..MaxTrendMonth : six_months_ago(m, 1) >= 1}

\* The expense tables of at most MaxExpenses rows recorded up to month `now`:
\* timestamps do not decrease in id order.
TrendTables(now) ==
    LET Rows == {ExpenseRow(u, "Food", a, "", t) :
                    u \in Users, a \in {Num(1), Num(2)}, t \in 1..now}
        InOrder(t) == \A i, j \in DOMAIN t : i < j => t[i].timestamp <= t[j].timestamp
    IN  {t \in UNION {[1..n -> Rows] : n \in 0..MaxExpenses} : InOrder(t)}

InitTrend ==
    /\ users = [u \in Users |-> generate_password_hash(IF u = "demo" THEN "demo" ELSE "secret1")]
    /\ session = NoSession
    /\ tz = "utc"
    /\ pending = [w \in Workers |-> Idle]
    /\ localMonth \in TrendNow
    /\ utcMonth = localMonth
    /\ income = {}
    /\ budgets = {}
    /\ expenses \in TrendTables(localMonth)
    /\ goals = {}
    /\ notifications = <<>>
    /\ request = [op |-> "none"]
    /\ response = [status |-> 0, body |-> "none"]
    /\ effect = [rows |-> 0, conflict |-> FALSE]
    /\ period = [i \in DOMAIN expenses |-> expenses[i].timestamp]
    /\ lastIncome = [u \in Users |-> [m \in Months |-> JNull]]
    /\ lastBudget = [u \in Users |-> [c \in Categories |-> [m \in Months |-> JNull]]]
    /\ script = 0
    /\ free = 0
    /\ held = [w \in Workers |-> FALSE]

NextTrend ==
    \/ \E u \in Users, p \in Passwords : login(u, p) /\ UNCHANGED client
    \/ logout /\ UNCHANGED client
    \/ \E day \in DayInputs : get_trends(day) /\ UNCHANGED client

SpecTrend == InitTrend /\ [][NextTrend]_vars

(***************************************************************************)
(* A first session of a new user, at any time of the server's clock: after *)
(* the demo user recorded an expense, alice registers, logs in, sets her   *)
(* income, sets a budget for Food, adds a first expense within it and a    *)
(* second that exceeds it, and reads her data.  `script` counts her steps. *)
(***************************************************************************)
ScenarioAmounts == {Num(1), Num(2)}

At(k) == script = k /\ script' = k + 1 /\ free' = free /\ held' = held

NextScenario ==
    \/ script = 0 /\ Tick /\ UNCHANGED client
    \/ At(0) /\ login("demo", "demo")
    \/ At(1) /\ add_expense("Food", Num(2), "")
    \/ At(2) /\ register("alice", "secret1", "secret1")
    \/ At(3) /\ login("alice", "secret1")
    \/ At(4) /\ \E I \in {Num(0), Num(1), Num(3)} : set_income(I)
    \/ At(5) /\ \E B \in ScenarioAmounts : add_budget("Food", B)
    \/ At(6) /\ \E e1 \in ScenarioAmounts :
                   /\ \E r \in budgets : r.user_id = "alice" /\ e1.n <= r.amount.n
                   /\ add_expense("Food", e1, "")
    \/ At(7) /\ \E e2 \in ScenarioAmounts :
                   /\ \E r \in budgets :
                         /\ r.user_id = "alice"
                         /\ r.amount.n < expenses[Len(expenses)].amount.n + e2.n
                   /\ add_expense("Food", e2, "lunch")
    \/ At(8) /\ get_data

SpecScenario == Init /\ [][NextScenario]_vars

(***************************************************************************)
(* Two requests at a time: the demo user's set-income and upsert-budget    *)
(* requests are taken by either worker, each worker's request carrying its *)
(* own amount, and their statements run in any order, across a month       *)
(* boundary as well.                                                       *)
(***************************************************************************)
NextRace ==
    \/ login("demo", "demo") /\ UNCHANGED client
    \/ Tick /\ UNCHANGED client
    \/ \E w \in Workers : set_income_begin(w, Num(w)) /\ UNCHANGED client
    \/ \E w \in Workers : set_income_commit(w) /\ UNCHANGED client
    \/ \E w \in Workers : add_budget_begin(w, "Food", Num(w)) /\ UNCHANGED client
    \/ \E w \in Workers : add_budget_commit(w) /\ UNCHANGED client

SpecRace == Init /\ [][NextRace]_vars

(***************************************************************************)
(* The overspend check under concurrency: the demo user's add-expense      *)
(* requests are taken by either worker and run statement by statement,     *)
(* while upsert-budget and delete-budget requests of the same category     *)
(* commit in between, across a month boundary as well.                     *)
(***************************************************************************)
\* The amounts of the first i expenses of (u, c) recorded in the current month.
RECURSIVE SpentInPeriod(_, _, _)
SpentInPeriod(u, c, i) ==
    IF i = 0 THEN 0
    ELSE (IF expenses[i].user_id = u /\ expenses[i].category = c
             /\ period[i] = current_month
          THEN NumOf(expenses[i].amount) ELSE 0)
         + SpentInPeriod(u, c, i - 1)

\* A budget of the category of the request in worker w exists for the current
\* month and the committed month-to-date spend of the category is above it,
\* whether the spend is taken by the month the expenses were recorded in or
\* as the check sums it.
OverBudget(w) ==
    LET p == pending[w]
    IN  \E r \in BudgetFor(p.user_id, p.category) :
           /\ IsNumber(r.amount)
           /\ \/ SpentInPeriod(p.user_id, p.category, Len(expenses)) > NumOf(r.amount)
              \/ TotalSpent(expenses, p.user_id, p.category) > NumOf(r.amount)

\* `held` after a step: from the state the check of worker w reads the budget
\* in to the state it sums the spend in, has OverBudget(w) been true.
Observed ==
    /\ held' = [w \in Workers |->
                  /\ pending'[w].op = "add_expense"
                  /\ pending'[w].pc = "budget"
                  /\ \/ pending[w] = pending'[w] /\ held[w]
                     \/ OverBudget(w)']
    /\ UNCHANGED <<script, free>>

NextOverspend ==
    \/ login("demo", "demo") /\ Observed
    \/ Tick /\ Observed
    \/ \E w \in Workers :
          /\ Len(expenses) < MaxExpenses
          /\ add_expense_insert(w, "Food", Num(2), "")
          /\ Observed
    \/ \E w \in Workers : check_overspending_budget(w) /\ Observed
    \/ \E w \in Workers : check_overspending_total(w) /\ Observed
    \/ add_budget("Food", Num(2)) /\ Observed
    \/ delete_budget("Food") /\ Observed

SpecOverspend == Init /\ [][NextOverspend]_vars

(***************************************************************************)
(* The whole application.  The client opens with a fixed workload that     *)
(* fills every table for two users across a month boundary; at any point   *)
(* it may leave the workload and send up to MaxRequests requests of its    *)
(* own choice, to any handler with any input.                              *)
(***************************************************************************)
Workload ==
    << [op |-> "login", username |-> "demo", password |-> "demo"],
       [op |-> "add_budget", category |-> "Food", amount |-> Num(1)],
       [op |-> "add_goal", name |-> "car", target |-> Num(2), deadline |-> "2030-01-01"],
       [op |-> "add_saving", goal_name |-> "car", amount |-> Num(1)],
       [op |-> "add_expense", category |-> "Food", amount |-> Num(2), description |-> ""],
       [op |-> "register", username |-> "alice", password |-> "secret1",
        confirm_password |-> "secret1"],
       [op |-> "login", username |-> "alice", password |-> "secret1"],
       [op |-> "set_income", amount |-> Num(1)],
       [op |-> "add_budget", category |-> "Food", amount |-> Num(2)],
       [op |-> "add_budget", category |-> "Rent", amount |-> Num(1)],
       [op |-> "add_goal", name |-> "car", target |-> Num(2), deadline |-> "2030-01-01"],
       [op |-> "add_goal", name |-> "trip", target |-> Num(2), deadline |-> "2030-01-01"],
       [op |-> "tick"],
       [op |-> "add_budget", category |-> "Food", amount |-> Num(1)],
       [op |-> "set_income", amount |-> Num(2)],
       [op |-> "add_expense", category |-> "Food", amount |-> Num(1), description |-> "lunch"],
       [op |-> "logout"] >>

\* The next request of the workload goes to handler `op`.
Scripted(op) == free = 0 /\ script < Len(Workload) /\ Workload[script + 1].op = op

\* The requests the client may send to handler `op`: the next one of its
\* workload, or any of `inputs` as a request of its own choice.
Offered(op, inputs) ==
    (IF Scripted(op) THEN {[r |-> Workload[script + 1], scripted |-> TRUE]} ELSE {})
    \cup (IF free < MaxRequests THEN {[r |-> q, scripted |-> FALSE] : q \in inputs} ELSE {})

Sent(o) ==
    IF o.scripted
    THEN script' = script + 1 /\ free' = free /\ held' = held
    ELSE free' = free + 1 /\ script' = script /\ held' = held

Next ==
    \/ \E o \in Offered("register",
                        {[username |-> "alice", password |-> c[1], confirm_password |-> c[2]] :
                            c \in Credentials}) :
          register(o.r.username, o.r.password, o.r.confirm_password) /\ Sent(o)
    \/ \E o \in Offered("login", [username : Users, password : Passwords]) :
          login(o.r.username, o.r.password) /\ Sent(o)
    \/ \E o \in Offered("logout", {[op |-> "logout"]}) : logout /\ Sent(o)
    \/ \E o \in Offered("tick", {[op |-> "tick"]}) : Tick /\ Sent(o)
    \/ \E o \in Offered("set_income", [amount : AmountInputs]) :
          set_income(o.r.amount) /\ Sent(o)
    \/ \E o \in Offered("add_budget", [category : CategoryInputs, amount : AmountInputs]) :
          add_budget(o.r.category, o.r.amount) /\ Sent(o)
    \/ \E o \in Offered("delete_budget", [category : CategoryInputs]) :
          delete_budget(o.r.category) /\ Sent(o)
    \/ \E o \in Offered("add_expense", [category : CategoryInputs, amount : AmountInputs,
                                        description : Descriptions]) :
          add_expense(o.r.category, o.r.amount, o.r.description) /\ Sent(o)
    \/ \E o \in Offered("add_goal", [name : NameInputs, target : {Num(2), JText, JNull},
                                     deadline : DeadlineInputs]) :
          add_goal(o.r.name, o.r.target, o.r.deadline) /\ Sent(o)
    \/ \E o \in Offered("delete_goal", [name : NameInputs]) :
          delete_goal(o.r.name) /\ Sent(o)
    \/ \E o \in Offered("add_saving", [goal_name : NameInputs, amount : AmountInputs]) :
          add_saving(o.r.goal_name, o.r.amount) /\ Sent(o)
    \/ \E o \in Offered("get_data", {[op |-> "get_data"]}) : get_data /\ Sent(o)
    \/ \E o \in Offered("get_notifications", {[op |-> "get_notifications"]}) :
          get_notifications /\ Sent(o)
    \/ \E o \in Offered("get_trends", [day : DayInputs]) : get_trends(o.r.day) /\ Sent(o)

Spec == Init /\ [][Next]_vars

(***************************************************************************)
(* Properties of the handlers.                                             *)
(***************************************************************************)
DataOps == {"get_data", "set_income", "add_budget", "delete_budget", "add_expense",
            "add_goal", "delete_goal", "add_saving", "get_notifications", "get_trends"}

\* The step handles a request to handler `op` (a passing month boundary
\* leaves the last request in place).
Step(op) == request'.op = op /\ UNCHANGED <<localMonth, utcMonth>>

\* C1: every data operation invoked without an authenticated session returns
\* the Unauthorized error and leaves income, budgets, expenses, goals and
\* notifications unchanged.
C1_UnauthorizedNoEffect ==
    [][\A op \in DataOps :
          (Step(op) /\ ~session.logged_in) =>
              (response' = Unauthorized /\ UNCHANGED tables)]_vars

\* C1's case: with every table filled and nobody logged in, an add-expense
\* request was answered Unauthorized.
C1_Witness ==
    /\ request.op = "add_expense"
    /\ response = Unauthorized
    /\ ~session.logged_in
    /\ income # {} /\ budgets # {} /\ goals # {}
    /\ expenses # <<>> /\ notifications # <<>>

\* The month-to-date spend of user u in category c: the amounts of the
\* expenses u recorded in c during calendar month m (rows 1..i of the table).
RECURSIVE MonthToDate(_, _, _, _, _, _)
MonthToDate(exp, per, u, c, m, i) ==
    IF i = 0 THEN 0
    ELSE (IF exp[i].user_id = u /\ exp[i].category = c /\ per[i] = m
          THEN exp[i].amount.n ELSE 0)
         + MonthToDate(exp, per, u, c, m, i - 1)

\* C2: an add-expense in category c creates exactly one notification if a
\* budget exists for (user, c, current month) and the month-to-date spend of
\* (user, c), the new expense included, is strictly above it, and none
\* otherwise; alerts are not deduplicated.  (Stated for numeric amounts.)
C2_OneAlertIffOverBudget ==
    [][Step("add_expense") =>
          LET u == session.user_id
              c == request'.category
              budget == {r \in budgets : BudgetKey(r, u, c, localMonth)}
              spend == MonthToDate(expenses', period', u, c, localMonth, Len(expenses'))
              numeric == /\ \A i \in 1..Len(expenses') : expenses'[i].amount.k = "num"
                         /\ \A r \in budget : r.amount.k = "num"
              over == \E r \in budget : spend > r.amount.n
          IN  IF expenses' = expenses
              THEN notifications' = notifications
              ELSE numeric =>
                     /\ Len(notifications') = Len(notifications) + (IF over THEN 1 ELSE 0)
                     /\ SubSeq(notifications', 1, Len(notifications)) = notifications]_vars

\* C3: there is at most one income row per (user, month), and its amount is
\* the amount of the most recent accepted set-income of that user in that
\* month.
C3_OneIncomeRowLastWins ==
    \A u \in Users, m \in Months :
        LET rows == {r \in income : r.user_id = u /\ r.month_year = m}
        IN  /\ Cardinality(rows) <= 1
            /\ (rows = {}) <=> (lastIncome[u][m] = JNull)
            /\ \A r \in rows : r.amount = lastIncome[u][m]

\* C3's case: a set-income was accepted for a (user, month) that already had
\* a row, while another income row exists.
C3_Witness ==
    /\ request.op = "set_income"
    /\ response = Success
    /\ effect.conflict
    /\ Cardinality(income) >= 2

\* C5: set-income with an amount that is not a number, or that is negative,
\* returns the validation error and leaves the income rows as they were;
\* every amount that is a number >= 0 is accepted.
C5_IncomeValidation ==
    [][(Step("set_income") /\ session.logged_in) =>
          LET a == request'.amount
          IN  IF a.k = "num" /\ a.n >= 0
              THEN response' = Success
              ELSE response' = InvalidAmount /\ income' = income]_vars

\* C4: there is at most one budget row per (user, category, month), and when
\* present its amount is the amount of the most recent upsert for that key
\* since the last delete of that key.
C4_OneBudgetRowLastWins ==
    \A u \in Users, c \in Categories, m \in Months :
        LET rows == {r \in budgets : r.user_id = u /\ r.category = c /\ r.month_year = m}
        IN  /\ Cardinality(rows) <= 1
            /\ (rows = {}) <=> (lastBudget[u][c][m] = JNull)
            /\ \A r \in rows : r.amount = lastBudget[u][c][m]

\* C4's case: a budget upsert hit a key that already had a row, while a
\* budget row of another key exists.
C4_Witness ==
    /\ request.op = "add_budget"
    /\ response = Success
    /\ effect.conflict
    /\ Cardinality(budgets) >= 2

\* C6: delete-budget(c) by user u removes only the budget row (u, c, current
\* month); every other budget row and all income, expense, goal and
\* notification rows are unchanged.
C6_DeleteBudgetFrame ==
    [][(Step("delete_budget") /\ session.logged_in) =>
          LET Target(r) == /\ r.user_id = session.user_id
                           /\ r.category = request'.category
                           /\ r.month_year = localMonth
          IN  /\ \A r \in budgets : (r \in budgets') <=> ~Target(r)
              /\ budgets' \subseteq budgets
              /\ UNCHANGED <<income, expenses, goals, notifications>>]_vars

\* C6's case: a delete-budget removed the current month's row of a category
\* while the user's row of that category in another month, the user's row of
\* another category and another user's row of that category stay, and every
\* other table holds rows.
C6_Witness ==
    /\ request.op = "delete_budget"
    /\ effect.rows = 1
    /\ \E r \in budgets : /\ r.user_id = session.user_id
                          /\ r.category = request.category
                          /\ r.month_year # localMonth
    /\ \E r \in budgets : r.user_id = session.user_id /\ r.category # request.category
    /\ \E r \in budgets : r.user_id # session.user_id /\ r.category = request.category
    /\ income # {} /\ goals # {} /\ expenses # <<>> /\ notifications # <<>>

\* C7: delete-budget for a category with no budget row in the current month,
\* and delete-goal for a name the user has no goal for, return success and
\* leave the persisted state unchanged; each delete is idempotent: deleting
\* again after a delete changes nothing.
C7_DeleteAbsentIsNoOp ==
    [][/\ (Step("delete_budget") /\ session.logged_in) =>
            /\ response' = Success
            /\ (~\E r \in budgets : BudgetKey(r, session.user_id, request'.category, localMonth))
                  => UNCHANGED <<users, tables>>
            /\ BudgetDelete(budgets', session.user_id, request'.category, localMonth) = budgets'
       /\ (Step("delete_goal") /\ session.logged_in) =>
            /\ response' = Success
            /\ (~\E r \in goals : GoalKey(r, session.user_id, request'.name))
                  => UNCHANGED <<users, tables>>
            /\ GoalDelete(goals', session.user_id, request'.name) = goals'
      ]_vars

\* C7's case: a delete-goal for a name the user has no goal for was answered
\* with success and changed no row, while another user has a goal of that name.
C7_Witness ==
    /\ request.op = "delete_goal"
    /\ response = Success
    /\ effect.rows = 0
    /\ session.logged_in
    /\ \E r \in goals : r.name = request.name /\ r.user_id # session.user_id

\* C8: add-goal with a name for which the user already has a goal fails with
\* the Duplicate error and leaves the existing goal's target, accumulated
\* amount and deadline unchanged; no user ever has two goals of the same name.
C8_DuplicateGoalRejected ==
    /\ [](\A g, h \in goals : (g.user_id = h.user_id /\ g.name = h.name) => g = h)
    /\ [][(/\ Step("add_goal")
           /\ session.logged_in
           /\ \E g \in goals : GoalKey(g, session.user_id, request'.name)) =>
             (response' = Duplicate /\ goals' = goals)]_vars

\* C8's case: an add-goal was answered Duplicate for a name under which the
\* user has a goal with savings.
C8_Witness ==
    /\ request.op = "add_goal"
    /\ response = Duplicate
    /\ \E g \in goals : /\ GoalKey(g, session.user_id, request.name)
                        /\ g.current_amount = Num(1)

\* C9: add-saving(g, a) by user u adds exactly a to the accumulated amount of
\* u's goal g and changes nothing else; if u has no goal g it reports success
\* and changes no row.
C9_AddSavingAddsExactly ==
    [][(Step("add_saving") /\ session.logged_in /\ request'.amount.k = "num") =>
          /\ response' = Success
          /\ UNCHANGED <<income, budgets, expenses, notifications>>
          /\ goals' = {IF GoalKey(r, session.user_id, request'.goal_name)
                       THEN [r EXCEPT !.current_amount =
                                Num(r.current_amount.n + request'.amount.n)]
                       ELSE r : r \in goals}
          /\ \A r \in goals' : GoalKey(r, session.user_id, request'.goal_name)
                                  => r.current_amount.k = "num"]_vars

\* C10: expenses are append-only: a recorded expense row is never removed or
\* changed, only add-expense changes the table, and each accepted add-expense
\* adds exactly one row.
C10_ExpensesAppendOnly ==
    [][/\ Len(expenses') >= Len(expenses)
       /\ SubSeq(expenses', 1, Len(expenses)) = expenses
       /\ Len(expenses') <= Len(expenses) + 1
       /\ (expenses' # expenses) => (Step("add_expense") /\ session.logged_in)
       /\ (Step("add_expense") /\ client' # client /\ response' = Success)
             => Len(expenses') = Len(expenses) + 1]_vars

\* C10's case: an add-expense was accepted for a user and category that
\* already had an expense.
C10_Witness ==
    /\ request.op = "add_expense"
    /\ response = Success
    /\ Len(expenses) >= 2
    /\ \E i \in 1..(Len(expenses) - 1) :
          /\ expenses[i].user_id = session.user_id
          /\ expenses[i].category = request.category

\* C11: the expense insert and the overspend check are separate steps: when
\* the check raises (the budget amount it reads is not a number), the expense
\* inserted by the same add-expense request stays in the table.
C11_FailedCheckKeepsExpense ==
    [][(/\ Step("add_expense")
        /\ session.logged_in
        /\ request'.category # PyNone
        /\ request'.amount.k # "null"
        /\ \E r \in budgets :
              /\ BudgetKey(r, session.user_id, request'.category, localMonth)
              /\ r.amount.k = "text") =>
          /\ response' = ServerError
          /\ Len(expenses') = Len(expenses) + 1
          /\ SubSeq(expenses', 1, Len(expenses)) = expenses
          /\ LET e == expenses'[Len(expenses')]
             IN  /\ e.user_id = session.user_id
                 /\ e.category = request'.category
                 /\ e.amount = Bind(request'.amount)]_vars

\* C11's case: an add-expense whose check raised was answered with the
\* server error, and its row is the last of the table.
C11_Witness ==
    /\ request.op = "add_expense"
    /\ response = ServerError
    /\ effect.rows = 1
    /\ expenses # <<>>
    /\ expenses[Len(expenses)].user_id = session.user_id
    /\ \E r \in budgets : /\ BudgetKey(r, session.user_id, request.category, localMonth)
                          /\ r.amount.k = "text"

\* C12: trend analysis covers exactly the trailing six calendar months,
\* the current month included: an expense of the user contributes to the
\* result if and only if its month is the current month or one of the five
\* calendar months before it.
C12_TrendWindowSixMonths ==
    [][(Step("get_trends") /\ session.logged_in) =>
          \A i \in 1..Len(expenses) :
              expenses[i].user_id = session.user_id =>
                 ((\E j \in 1..Len(response'.labels) :
                        response'.labels[j] = expenses[i].timestamp)
                  <=> (/\ expenses[i].timestamp >= localMonth - 5
                       /\ expenses[i].timestamp <= localMonth))]_vars

\* The amounts of user u's expenses of month m, among rows 1..i of the table.
RECURSIVE SpentInMonth(_, _, _, _)
SpentInMonth(exp, u, m, i) ==
    IF i = 0 THEN 0
    ELSE (IF exp[i].user_id = u /\ exp[i].timestamp = m THEN NumOf(exp[i].amount) ELSE 0)
         + SpentInMonth(exp, u, m, i - 1)

\* C13: trend analysis is sparse and ordered: it returns one (label, total)
\* pair for each month of its window in which the user has an expense (the
\* window reaches from its first label, and at least from five months back,
\* to the current month) and none for a month without; labels ascend
\* strictly; each total is the sum of the user's expense amounts of the month.
C13_TrendSparseOrdered ==
    [][(Step("get_trends") /\ session.logged_in) =>
          LET u == session.user_id
              labels == response'.labels
              totals == response'.expenses
              Mine(m) == \E i \in 1..Len(expenses) :
                            expenses[i].user_id = u /\ expenses[i].timestamp = m
              first == IF labels = <<>> THEN localMonth - 5
                       ELSE IF labels[1] < localMonth - 5 THEN labels[1]
                       ELSE localMonth - 5
          IN  /\ response'.status = 200
              /\ Len(totals) = Len(labels)
              /\ \A j \in 1..Len(labels) :
                    /\ Mine(labels[j])
                    /\ totals[j] = SpentInMonth(expenses, u, labels[j], Len(expenses))
                    /\ j > 1 => labels[j - 1] < labels[j]
              /\ \A m \in first..localMonth :
                    Mine(m) => \E j \in 1..Len(labels) : labels[j] = m]_vars

\* C13's case: the analysis returned two months that are not neighbours:
\* the months between them, without an expense of the user, have no pair.
C13_Witness ==
    /\ request.op = "get_trends"
    /\ response.status = 200
    /\ Len(response.labels) = 2
    /\ response.labels[2] > response.labels[1] + 1

\* C14: the aggregated read is scoped by month for income and budgets only:
\* it returns the income amount and the budgets (by category) of the current
\* month, never rows of another month, and income amount 0 with an absent
\* timestamp when the user has no income row for the current month; it
\* returns all of the user's expenses of every month and all of the user's
\* goals.
C14_ReadScopedByMonth ==
    [][(Step("get_data") /\ session.logged_in) =>
          LET u == session.user_id
              inc == {r \in income : r.user_id = u /\ r.month_year = localMonth}
              bud == {r \in budgets : r.user_id = u /\ r.month_year = localMonth}
              exp == {i \in 1..Len(expenses) : expenses[i].user_id = u}
              gl == {g \in goals : g.user_id = u}
          IN  /\ response'.status = 200
              /\ LET d == response'.data
                 IN  /\ inc = {} => d.income = [amount |-> 0, updated_at |-> PyNone]
                     /\ \A r \in inc : /\ d.income.amount = NumOf(r.amount)
                                       /\ d.income.updated_at # PyNone
                     /\ {b.category : b \in d.budgets} = {r.category : r \in bud}
                     /\ \A b \in d.budgets : \E r \in bud :
                           r.category = b.category /\ NumOf(r.amount) = b.amount
                     /\ Len(d.expenses) = Cardinality(exp)
                     /\ \A i \in exp : \E j \in 1..Len(d.expenses) :
                           /\ d.expenses[j].category = expenses[i].category
                           /\ d.expenses[j].timestamp = expenses[i].timestamp
                           /\ d.expenses[j].amount = NumOf(expenses[i].amount)
                     /\ {g.name : g \in d.goals} = {g.name : g \in gl}]_vars

\* C15: derived statistics: remaining = income - total current-month spend,
\* and may be negative; the displayed savings rate is remaining / income * 100
\* (shown to one decimal) when income > 0 and that value is positive, and 0
\* when income is 0 or the value is negative, never a negative percentage.
C15_DashboardStats ==
    [][(Step("get_data") /\ response'.status = 200) =>
          LET u == session.user_id
              shown == updateDashboardStats(response'.data, utcMonth)
              rows == {r \in income : r.user_id = u /\ r.month_year = localMonth}
              I == IF rows = {} THEN 0 ELSE (CHOOSE r \in rows : TRUE).amount.n
              spend == SpentInMonth(expenses, u, utcMonth, Len(expenses))
              miss == shown.savings_rate * I - 1000 * (I - spend)
          IN  /\ shown.remaining = I - spend
              /\ shown.savings_rate >= 0
              /\ (I = 0 \/ I - spend <= 0) => shown.savings_rate = 0
              /\ (I > 0 /\ I - spend > 0) => (2 * miss <= I /\ 2 * miss >= 0 - I)]_vars

\* C15's case: the dashboard of a read model whose month's expenses exceed
\* a positive income: remaining is negative and the rate shown is 0.
C15_Witness ==
    /\ request.op = "get_data"
    /\ response.status = 200
    /\ response.data.income.amount > 0
    /\ updateDashboardStats(response.data, utcMonth).remaining < 0
    /\ updateDashboardStats(response.data, utcMonth).savings_rate = 0

\* C16: a newly registered and logged-in user sets income I, sets budget B
\* for category c, then adds expenses e1 and e2 in c with e1 <= B < e1 + e2:
\* the first expense creates no notification and the second exactly one,
\* whose overspent amount is e1 + e2 - B; the aggregated read then shows
\* income I, budget c = B, two expenses and one unread notification.
C16_Scenario ==
    LET Mine(q) == {i \in 1..Len(q) : q[i].user_id = "alice"}
        I == CHOOSE r \in income : r.user_id = "alice"
        B == CHOOSE r \in budgets : r.user_id = "alice"
        e1 == expenses[2].amount.n
        e2 == expenses[3].amount.n
    IN  /\ script = 7 => Mine(notifications) = {}
        /\ script >= 8 =>
              /\ Cardinality(Mine(notifications)) = 1
              /\ \A i \in Mine(notifications) :
                    /\ notifications[i].category = "Food"
                    /\ notifications[i].overspent = e1 + e2 - B.amount.n
                    /\ ~notifications[i].is_read
        /\ script = 9 =>
              /\ response.status = 200
              /\ response.data.income.amount = I.amount.n
              /\ response.data.budgets = {[category |-> "Food", amount |-> B.amount.n]}
              /\ Len(response.data.expenses) = 2
              /\ Len(response.data.notifications) = 1

\* C17: every data operation that fails is surfaced as a structured error of
\* class Unauthorized or bad-request, and malformed input is rejected before
\* any write: upsert-budget, add-expense, add-goal and add-saving called by
\* an authenticated user with a missing or non-numeric amount, or a missing
\* category or name, end in a bad-request error, not in an unhandled failure
\* and not in a stored malformed row.
C17_MalformedInputRejected ==
    [][/\ \A op \in DataOps : Step(op) => response'.status \in {200, 400, 401}
       /\ \A op \in {"add_budget", "add_expense", "add_goal", "add_saving"} :
             (Step(op) /\ session.logged_in) =>
                LET q == request'
                    amount == IF op = "add_goal" THEN q.target ELSE q.amount
                    key == CASE op \in {"add_budget", "add_expense"} -> q.category
                             [] op = "add_goal" -> q.name
                             [] op = "add_saving" -> q.goal_name
                    malformed == amount.k \in {"text", "null"} \/ key = PyNone
                IN  malformed => (response'.status = 400 /\ UNCHANGED tables)]_vars

\* C18: notifications are created only by the overspend check run inside
\* add-expense and are never modified or removed: every other operation
\* leaves the table unchanged, the number of notifications of a user never
\* decreases, and every notification is unread in every reachable state.
C18_NotificationsOnlyByCheck ==
    /\ [](\A i \in 1..Len(notifications) : ~notifications[i].is_read)
    /\ [][/\ Len(notifications') >= Len(notifications)
           /\ SubSeq(notifications', 1, Len(notifications)) = notifications
           /\ \A u \in Users :
                 Cardinality({i \in 1..Len(notifications') : notifications'[i].user_id = u})
                    >= Cardinality({i \in 1..Len(notifications) : notifications[i].user_id = u})
           /\ notifications' # notifications =>
                 /\ Step("add_expense")
                 /\ session.logged_in
                 /\ Len(expenses') = Len(expenses) + 1
                 /\ notifications'[Len(notifications')].user_id = session.user_id]_vars

\* C18's case: with notifications of both users in the table, an add-expense
\* created one more.
C18_Witness ==
    /\ request.op = "add_expense"
    /\ Len(notifications) >= 2
    /\ notifications[1].user_id # notifications[Len(notifications)].user_id
    /\ notifications[Len(notifications)].user_id = session.user_id

\* C19: last write wins under concurrency: two set-income requests, or two
\* upsert-budget requests for one category, of one user in one month,
\* interleaved in any order, leave exactly one row for the key, whose amount
\* is the amount of the request whose write was applied last: never a
\* duplicate row, a merged value or a lost row.
C19_LastWriteWins ==
    /\ [](\A r, q \in income :
            (r.user_id = q.user_id /\ r.month_year = q.month_year) => r = q)
    /\ [](\A r, q \in budgets :
            (/\ r.user_id = q.user_id /\ r.category = q.category
             /\ r.month_year = q.month_year) => r = q)
    /\ [][\A w \in Workers :
            LET p == pending[w]
            IN  /\ (p.op = "set_income" /\ pending'[w] = Idle) =>
                      /\ LET Key(r) == r.user_id = p.user_id /\ r.month_year = p.month_year
                         IN  /\ {r \in income' : Key(r)} =
                                   {IncomeRow(p.user_id, p.amount, p.month_year)}
                             /\ {r \in income' : ~Key(r)} = {r \in income : ~Key(r)}
                      /\ budgets' = budgets
                /\ (p.op = "add_budget" /\ pending'[w] = Idle) =>
                      /\ LET Key(r) == BudgetKey(r, p.user_id, p.category, p.month_year)
                         IN  /\ {r \in budgets' : Key(r)} =
                                   {BudgetRow(p.user_id, p.category, p.amount, p.month_year)}
                             /\ {r \in budgets' : ~Key(r)} = {r \in budgets : ~Key(r)}
                      /\ income' = income
                /\ (p = Idle /\ pending'[w] # Idle) => UNCHANGED tables]_vars

\* C19's case: a worker's set-income overwrote the row written by the other
\* worker while the other worker holds a further set-income for the same
\* month, taken before this write.
C19_Witness ==
    /\ request.op = "set_income"
    /\ response = Success
    /\ effect.conflict
    /\ \E w \in Workers :
          /\ w # request.worker
          /\ pending[w].op = "set_income"
          /\ pending[w].amount # request.amount
          /\ \E r \in income : /\ r.user_id = pending[w].user_id
                                /\ r.month_year = pending[w].month_year
                                /\ r.amount = request.amount

\* C20: owner isolation: every mutation performed in user A's session
\* changes only rows owned by A, the rows of every other user are unchanged
\* by A's operations (A's overspend check included), and every read in A's
\* session (aggregated state, notifications, trends) depends only on rows
\* owned by A: it is the read of the tables without the rows of other users.
C20_OwnerIsolation ==
    [][\A op \in DataOps :
          (Step(op) /\ session.logged_in) =>
             LET A == session.user_id
                 Own(r) == r.user_id = A
                 Foreign(r) == r.user_id # A
                 own == [inc |-> {r \in income : Own(r)},
                         bud |-> {r \in budgets : Own(r)},
                         exp |-> SelectSeq(expenses, Own),
                         gl |-> {r \in goals : Own(r)},
                         nts |-> SelectSeq(notifications, Own)]
             IN  /\ {r \in income' : Foreign(r)} = {r \in income : Foreign(r)}
                 /\ {r \in budgets' : Foreign(r)} = {r \in budgets : Foreign(r)}
                 /\ {r \in goals' : Foreign(r)} = {r \in goals : Foreign(r)}
                 /\ SelectSeq(expenses', Foreign) = SelectSeq(expenses, Foreign)
                 /\ SelectSeq(notifications', Foreign) = SelectSeq(notifications, Foreign)
                 /\ (op = "get_data" /\ response'.status = 200) =>
                       response'.data =
                          load_user_data(own.inc, own.bud, own.exp, own.gl, own.nts, A)
                 /\ (op = "get_data" /\ response'.status # 200) =>
                       \/ \E r \in own.bud \cup own.inc : FloatRaises(r.amount)
                       \/ \E i \in 1..Len(own.exp) : FloatRaises(own.exp[i].amount)
                       \/ \E g \in own.gl : FloatRaises(g.target_amount)
                                                \/ FloatRaises(g.current_amount)
                 /\ op = "get_notifications" =>
                       response'.list = NotificationsOf(own.nts, A)
                 /\ op = "get_trends" =>
                       /\ response'.labels =
                             generate_trend_analysis(own.exp, A, request'.day).labels
                       /\ response'.expenses =
                             generate_trend_analysis(own.exp, A, request'.day).expenses]_vars

\* C20's case: an add-saving changed the user's goal while another user has
\* a goal of the same name, and the other tables hold rows of both users.
C20_Witness ==
    /\ request.op = "add_saving"
    /\ effect.rows = 1
    /\ \E g \in goals : g.user_id # session.user_id /\ g.name = request.goal_name
    /\ \E r, q \in budgets : r.user_id # q.user_id
    /\ \E i, j \in 1..Len(expenses) : expenses[i].user_id # expenses[j].user_id

\* C21: the aggregated read is always available: in every state reachable by
\* any sequence of data operations of an authenticated user with any request
\* inputs (a missing or non-numeric amount included), the read for that user
\* returns a read model rather than failing.
C21_ReadAlwaysAvailable ==
    [][(Step("get_data") /\ session.logged_in) =>
          (response'.status = 200 /\ response'.body = "data")]_vars

\* C22: under any interleaving of the statements of concurrent add-expense,
\* upsert-budget and delete-budget requests of one user, an add-expense
\* request creates at most one notification, and creates it only if at some
\* moment of its check a budget of the category existed and the committed
\* month-to-date spend of the category was above it; no other step creates
\* one, and a user's notifications are never more than the user's expenses.
C22_AlertOnlyWhenOverBudget ==
    /\ [][\A w \in Workers :
             (pending[w].op = "add_expense" /\ pending'[w] # pending[w]) =>
                /\ Len(notifications') <= Len(notifications) + 1
                /\ notifications' # notifications =>
                      /\ pending[w].pc = "budget"
                      /\ pending'[w] = Idle
                      /\ held[w]]_vars
    /\ [][notifications' # notifications =>
             \E w \in Workers : pending[w].op = "add_expense" /\ pending'[w] = Idle]_vars
    /\ [](\A u \in Users :
             Cardinality({i \in DOMAIN notifications : notifications[i].user_id = u})
                <= Cardinality({i \in DOMAIN expenses : expenses[i].user_id = u}))

\* C23: add-goal answers the Duplicate error only when the user already has a
\* goal of that name, whatever the target and the deadline are; when it
\* succeeds it adds exactly one goal, of that user and name, with accumulated
\* amount 0, also when a goal of that name was contributed to and deleted
\* before.
C23_DuplicateOnlyForSameName ==
    [][(Step("add_goal") /\ session.logged_in) =>
          /\ response' = Duplicate =>
                \E g \in goals : GoalKey(g, session.user_id, request'.name)
          /\ response' = Success =>
                \E g \in goals' \ goals :
                   /\ goals' = goals \cup {g}
                   /\ GoalKey(g, session.user_id, request'.name)
                   /\ g.current_amount = Num(0)]_vars


====
